---- MODULE Spec2Model ----
(***************************************************************************)
(* Model of the "hello world a million times" conformance harness:         *)
(*   - scripts/run-interactive.js : the interactive dispatcher             *)
(*   - the vitest suite           : per-entry validation (structure, size, *)
(*                                  banned keywords, self recursion,       *)
(*                                  execution and output count)            *)
(* Strings that the code compares or sorts are sequences of code units     *)
(* (small naturals); file names, which are only tested for equality, are   *)
(* TLA+ strings.                                                           *)
(***************************************************************************)
EXTENDS Integers, Sequences, FiniteSets, TLC

(***************************************************************************)
(* Bounds of the model.                                                    *)
(***************************************************************************)
MaxEntries == 3       \* items returned by readdirSync(srcDir)
MaxInputLen == 2      \* code units of process.argv[2] / of the typed answer
MaxCandidates == 2    \* length of the list closeWords resolves with
MaxDirLen == 2        \* items of an entry directory (findMainFile inputs)
MaxBodyLen == 4       \* lexemes in the body of a function declaration
MaxTextLen == 5       \* pieces of a text given to the keyword test
MaxChunks == 2        \* "data" events of one child of the validation suite

VARIABLES
  \* ---- interactive dispatcher (run-interactive.js) ----
  availableDirs,   \* sorted names of the sub-directories of src/
  argv2,           \* process.argv[2]: <<>> when absent, <<s>> when given
  rlOpen,          \* the readline interface on stdin is open
  pc,              \* position of the dispatcher process
  typed,           \* dirName handed to handleSelection
  idx,             \* index argument of the current runAll call
  running,         \* child processes spawned and not yet exited
  spawned,         \* entry names in the order their child was spawned
  exits,           \* exit codes in the order the "exit" events arrived
  exitCode,        \* exit status of the dispatcher process once pc = "exited"
  out,             \* console messages, in order
  closest,         \* outcome of the closeWords call of handleSelection
  \* ---- validation suite of one entry ----
  entryDir,        \* items of the entry directory
  diskText,        \* text of the entry's file
  diskSize,        \* statSync(filePath).size
  curFileName,     \* let fileName: <<>> while undefined, else <<name>>
  curFileContent,  \* let fileContent: <<>> while undefined, else <<text>>
  testNo,          \* the test (it) being run, 1..6; 7 when the suite is over
  tpc,             \* position inside the current test
  results,         \* outcome of each test
  child,           \* child processes of the execution test, not yet closed
  stdout,          \* occurrences of the target in the captured stdout
  spawns,          \* number of children the suite has spawned
  \* ---- a single call of one of the functions ----
  fnArg,           \* the argument
  fnRet            \* <<>> before the call, <<result>> after it

dispVars == <<availableDirs, argv2, rlOpen, pc, typed, idx, running, spawned,
              exits, exitCode, out, closest>>
testVars == <<entryDir, diskText, diskSize, curFileName, curFileContent, testNo, tpc,
              results, child, stdout, spawns>>
fnVars == <<fnArg, fnRet>>
vars == <<dispVars, testVars, fnVars>>

(***************************************************************************)
(* Strings as sequences of code units.  0 is the space character.          *)
(***************************************************************************)
Space == 0

RECURSIVE SeqsUpTo(_, _)
SeqsUpTo(S, n) ==
  IF n = 0 THEN {<<>>}
  ELSE LET shorter == SeqsUpTo(S, n - 1)
       IN  shorter \cup {Append(s, x) : s \in {t \in shorter : Len(t) = n - 1}, x \in S}

\* String.prototype.trim: drop leading and trailing white space
RECURSIVE TrimStart(_)
TrimStart(s) ==
  IF s # <<>> /\ Head(s) = Space THEN TrimStart(Tail(s)) ELSE s

RECURSIVE TrimEnd(_)
TrimEnd(s) ==
  IF s # <<>> /\ s[Len(s)] = Space THEN TrimEnd(SubSeq(s, 1, Len(s) - 1)) ELSE s

trim(s) == TrimEnd(TrimStart(s))

\* a < b in the order Array.prototype.sort uses by default (code units)
RECURSIVE StrLess(_, _)
StrLess(a, b) ==
  IF b = <<>> THEN FALSE
  ELSE IF a = <<>> THEN TRUE
  ELSE IF Head(a) # Head(b) THEN Head(a) < Head(b)
  ELSE StrLess(Tail(a), Tail(b))

\* names a directory item of src/ may have
DirNames == {<<1>>, <<1, 1>>, <<1, 2>>, <<2>>}

\* what the operator may type or pass as argument
InputStrings == SeqsUpTo({Space, 1, 2}, MaxInputLen)

(***************************************************************************)
(* File names and entry directories.                                       *)
(***************************************************************************)
ALLOWED_FILENAMES == <<"main.js", "main.cjs", "main.mjs", "main.ts", "main.coffee">>

FileNames == {"main.js", "main.cjs", "main.mjs", "main.ts", "main.coffee",
              "index.js", "main.jsx"}

\* an item of a directory: its name and whether statSync(..).isFile()
DirItems == [name : FileNames, isFile : BOOLEAN]

Includes(seq, x) == \E i \in 1..Len(seq) : seq[i] = x

Returned(v) == [throws |-> FALSE, value |-> v]
Thrown(m) == [throws |-> TRUE, value |-> m]

\* variant of findMainFile: directories are counted as files
findMainFile_NoStat(dirPath) ==
  LET files == dirPath
  IN  IF Len(files) = 0 THEN Thrown("no file")
      ELSE IF Len(files) > 1 THEN Thrown("several files")
      ELSE IF ~Includes(ALLOWED_FILENAMES, files[1].name) THEN Thrown("name not allowed")
      ELSE Returned(files[1].name)

\* findMainFile of run-interactive.js
findMainFile(dirPath) ==
  LET files == SelectSeq(dirPath, LAMBDA f : f.isFile)
  IN  IF Len(files) = 0 THEN Thrown("no file")
      ELSE IF Len(files) > 1 THEN Thrown("several files")
      ELSE IF ~Includes(ALLOWED_FILENAMES, files[1].name) THEN Thrown("name not allowed")
      ELSE Returned(files[1].name)

\* getRunCommand of run-interactive.js
getRunCommand(fileName) ==
  IF fileName = "main.ts" THEN <<"npx", "ts-node">>
  ELSE IF fileName = "main.coffee" THEN <<"npx", "coffee">>
  ELSE <<"node">>

\* getRunCommand of the validation suite
getRunCommand_test(fileName) ==
  IF fileName = "main.ts" THEN <<"npx", "ts-node", "--esm">>
  ELSE IF fileName = "main.coffee" THEN <<"npx", "coffee">>
  ELSE <<"node">>

\* variant of findMainFile_test: the name is not checked against the list
findMainFile_test_AnyName(dirPath) ==
  LET files == SelectSeq(dirPath, LAMBDA f : f.isFile)
  IN  IF Len(files) = 0 THEN Thrown("no file")
      ELSE IF Len(files) > 1 THEN Thrown("several files")
      ELSE Returned(files[1].name)

\* findMainFile of the validation suite
findMainFile_test(dirPath) ==
  LET files == SelectSeq(dirPath, LAMBDA f : f.isFile)
  IN  IF Len(files) = 0 THEN Thrown("no file")
      ELSE IF Len(files) > 1 THEN Thrown("several files")
      ELSE IF ~Includes(ALLOWED_FILENAMES, files[1].name) THEN Thrown("name not allowed")
      ELSE Returned(files[1].name)

\* contents an entry directory is read with by the dispatcher
DirContents ==
  { <<>>,
    <<[name |-> "main.js", isFile |-> TRUE]>>,
    <<[name |-> "main.ts", isFile |-> TRUE]>>,
    <<[name |-> "main.coffee", isFile |-> TRUE]>>,
    <<[name |-> "index.js", isFile |-> TRUE]>>,
    <<[name |-> "main.js", isFile |-> TRUE], [name |-> "main.mjs", isFile |-> TRUE]>>,
    <<[name |-> "main.jsx", isFile |-> FALSE], [name |-> "main.mjs", isFile |-> TRUE]>> }

(***************************************************************************)
(* Text of a script: a sequence of lexemes.  "/", "*", "(", ")", "{", "}", *)
(* ";", "=", the double quote, the space and the line feed are single      *)
(* characters; "for", "while", "function", "var", "f" and "g" are words    *)
(* (made of \w characters only), "var" standing for any of const, let and  *)
(* var; ".forEach" is a dot followed by a word; "=>" is the arrow.         *)
(***************************************************************************)
WordLexemes == {"for", "while", "function", "var", "f", "g"}

\* \s
IsSpace(c) == c \in {" ", "\n"}

\* the last character of the lexeme is a \w character
EndsWithWordChar(c) == c \in WordLexemes \cup {".forEach"}

\* first position from i on that holds no white space (Len(s) + 1 if none)
RECURSIVE NextNonSpace(_, _)
NextNonSpace(s, i) ==
  IF i <= Len(s) /\ IsSpace(s[i]) THEN NextNonSpace(s, i + 1) ELSE i

\* first position from i on that holds no word (Len(s) + 1 if none)
RECURSIVE WordEnd(_, _)
WordEnd(s, i) ==
  IF i <= Len(s) /\ s[i] \in WordLexemes THEN WordEnd(s, i + 1) ELSE i

\* first position from i on that holds x, 0 if none
RECURSIVE FindSym(_, _, _)
FindSym(s, i, x) ==
  IF i > Len(s) THEN 0
  ELSE IF s[i] = x THEN i
  ELSE FindSym(s, i + 1, x)

\* first position from i on where "*" "/" stands, 0 if none
RECURSIVE FindBlockEnd(_, _)
FindBlockEnd(s, i) ==
  IF i + 1 > Len(s) THEN 0
  ELSE IF s[i] = "*" /\ s[i + 1] = "/" THEN i
  ELSE FindBlockEnd(s, i + 1)

At(s, i, x) == i >= 1 /\ i <= Len(s) /\ s[i] = x

\* .replace(/\/\*[\s\S]*?\*\//g, "") from position i on
RECURSIVE StripBlockFrom(_, _)
StripBlockFrom(s, i) ==
  IF i > Len(s) THEN <<>>
  ELSE IF At(s, i, "/") /\ At(s, i + 1, "*") /\ FindBlockEnd(s, i + 2) # 0
  THEN StripBlockFrom(s, FindBlockEnd(s, i + 2) + 2)
  ELSE <<s[i]>> \o StripBlockFrom(s, i + 1)

\* .replace(/\/\/.*/g, "") from position i on
RECURSIVE StripLineFrom(_, _)
StripLineFrom(s, i) ==
  IF i > Len(s) THEN <<>>
  ELSE IF At(s, i, "/") /\ At(s, i + 1, "/")
  THEN LET nl == FindSym(s, i + 2, "\n")
       IN  IF nl = 0 THEN <<>> ELSE StripLineFrom(s, nl)
  ELSE <<s[i]>> \o StripLineFrom(s, i + 1)

\* variant of codeWithoutComments: line comments are removed first
codeWithoutComments_LineFirst(text) == StripBlockFrom(StripLineFrom(text, 1), 1)

\* lines 107-109
codeWithoutComments(text) == StripLineFrom(StripBlockFrom(text, 1), 1)

\* /\bfor\s*\(/ and /\bwhile\s*\(/ : the keyword kw at a word boundary,
\* white space, an opening parenthesis
MatchesKeyword(s, kw) ==
  \E i \in 1..Len(s) :
    /\ s[i] = kw
    /\ (i = 1 \/ ~EndsWithWordChar(s[i - 1]))
    /\ At(s, NextNonSpace(s, i + 1), "(")

\* /\.forEach\s*\(/
MatchesForEach(s) ==
  \E i \in 1..Len(s) :
    /\ s[i] = ".forEach"
    /\ At(s, NextNonSpace(s, i + 1), "(")

\* lines 105-114: TRUE when the three expectations hold
keywordTest(text) ==
  LET code == codeWithoutComments(text)
  IN  /\ ~MatchesKeyword(code, "for")
      /\ ~MatchesKeyword(code, "while")
      /\ ~MatchesForEach(code)

NoMatch == [ok |-> FALSE, name |-> <<>>, body |-> <<>>, end |-> 0]

\* last position that holds x, 0 if none
RECURSIVE FindLast(_, _, _)
FindLast(s, i, x) ==
  IF i < 1 THEN 0
  ELSE IF s[i] = x THEN i
  ELSE FindLast(s, i - 1, x)

\* variant of FunctionMatchAt: the body runs to the last "}" of the text
FunctionMatchAt_Greedy(s, i) ==
  LET b == NextNonSpace(s, i + 1)
      c == WordEnd(s, b)
      d == NextNonSpace(s, c)
      e == FindSym(s, d + 1, ")")
      f == NextNonSpace(s, e + 1)
      g == FindLast(s, Len(s), "}")
  IN  IF /\ At(s, i, "function")
         /\ b > i + 1
         /\ c > b
         /\ At(s, d, "(")
         /\ e # 0
         /\ At(s, f, "{")
         /\ g > f
      THEN [ok |-> TRUE, name |-> SubSeq(s, b, c - 1),
            body |-> SubSeq(s, f + 1, g - 1), end |-> g + 1]
      ELSE NoMatch

\* /function\s+(\w+)\s*\([^)]*\)\s*{([^}]*)}/ matched at position i
FunctionMatchAt(s, i) ==
  LET b == NextNonSpace(s, i + 1)
      c == WordEnd(s, b)
      d == NextNonSpace(s, c)
      e == FindSym(s, d + 1, ")")
      f == NextNonSpace(s, e + 1)
      g == FindSym(s, f + 1, "}")
  IN  IF /\ At(s, i, "function")
         /\ b > i + 1
         /\ c > b
         /\ At(s, d, "(")
         /\ e # 0
         /\ At(s, f, "{")
         /\ g # 0
      THEN [ok |-> TRUE, name |-> SubSeq(s, b, c - 1),
            body |-> SubSeq(s, f + 1, g - 1), end |-> g + 1]
      ELSE NoMatch

\* /(?:const|let|var)\s+(\w+)\s*=\s*\([^)]*\)\s*=>\s*([^;]+)/ matched at
\* position i; when only white space precedes the ";" (or the end), \s*
\* gives its last character back to [^;]+
ArrowMatchAt(s, i) ==
  LET b == NextNonSpace(s, i + 1)
      c == WordEnd(s, b)
      d == NextNonSpace(s, c)
      e == NextNonSpace(s, d + 1)
      f == FindSym(s, e + 1, ")")
      g == NextNonSpace(s, f + 1)
      h == NextNonSpace(s, g + 1)
      start == IF h <= Len(s) /\ s[h] # ";" THEN h
               ELSE IF h > g + 1 THEN h - 1
               ELSE 0
      semi == FindSym(s, start, ";")
      stop == IF semi = 0 THEN Len(s) + 1 ELSE semi
  IN  IF /\ At(s, i, "var")
         /\ b > i + 1
         /\ c > b
         /\ At(s, d, "=")
         /\ At(s, e, "(")
         /\ f # 0
         /\ At(s, g, "=>")
         /\ start # 0
      THEN [ok |-> TRUE, name |-> SubSeq(s, b, c - 1),
            body |-> SubSeq(s, start, stop - 1), end |-> stop]
      ELSE NoMatch

\* fileContent.matchAll(regex): the matches from position i on, left to right
RECURSIVE FunctionMatches(_, _)
FunctionMatches(s, i) ==
  IF i > Len(s) THEN <<>>
  ELSE LET m == FunctionMatchAt(s, i)
       IN  IF m.ok THEN <<m>> \o FunctionMatches(s, m.end)
           ELSE FunctionMatches(s, i + 1)

RECURSIVE ArrowMatches(_, _)
ArrowMatches(s, i) ==
  IF i > Len(s) THEN <<>>
  ELSE LET m == ArrowMatchAt(s, i)
       IN  IF m.ok THEN <<m>> \o ArrowMatches(s, m.end)
           ELSE ArrowMatches(s, i + 1)

\* new RegExp(`\\b${name}\\s*\\(`).test(body)
callPattern(name, body) ==
  \E p \in 1..Len(body) :
    /\ p + Len(name) - 1 <= Len(body)
    /\ SubSeq(body, p, p + Len(name) - 1) = name
    /\ (p = 1 \/ ~EndsWithWordChar(body[p - 1]))
    /\ At(body, NextNonSpace(body, p + Len(name)), "(")

\* lines 116-152: TRUE when no error is thrown.  functionBodies is a Map:
\* of several definitions of one name the last one set is the one tested
recursionTest(text) ==
  LET defs == FunctionMatches(text, 1) \o ArrowMatches(text, 1)
      IsLast(i) == \A j \in (i + 1)..Len(defs) : defs[j].name # defs[i].name
  IN  ~\E i \in 1..Len(defs) :
         IsLast(i) /\ callPattern(defs[i].name, defs[i].body)

(***************************************************************************)
(* Dispatcher: construction (lines 56-70).                                 *)
(***************************************************************************)
\* items of src/: name and whether statSync(..).isDirectory()
SrcItems == [name : DirNames, isDirectory : BOOLEAN]

SrcListings ==
  {l \in SeqsUpTo(SrcItems, MaxEntries) :
     \A i, j \in 1..Len(l) : i # j => l[i].name # l[j].name}

RECURSIVE Insert(_, _)
Insert(x, s) ==
  IF s = <<>> THEN <<x>>
  ELSE IF StrLess(x, Head(s)) THEN <<x>> \o s
  ELSE <<Head(s)>> \o Insert(x, Tail(s))

\* Array.prototype.sort() without comparator
RECURSIVE sort(_)
sort(s) == IF s = <<>> THEN <<>> ELSE Insert(Head(s), sort(Tail(s)))

Names(l) == [i \in 1..Len(l) |-> l[i].name]

\* readdirSync(srcDir).filter(isDirectory).sort()
ScanSrc(listing) == sort(Names(SelectSeq(listing, LAMBDA d : d.isDirectory)))

\* the code of a child that was terminated by a signal ("exit" passes null)
Null == -1
ExitCodes == {0, 1, 2, Null}

\* process.exit(code): a null code leaves the exit status at its default
ExitStatus(code) == IF code = Null THEN 0 ELSE code

\* the variables of the validation suite and of the single calls, at rest
TestIdle ==
  /\ entryDir = <<>>
  /\ diskText = <<>>
  /\ diskSize = 0
  /\ curFileName = <<>>
  /\ curFileContent = <<>>
  /\ testNo = 0
  /\ tpc = "idle"
  /\ results = <<>>
  /\ child = {}
  /\ stdout = 0
  /\ spawns = 0

FnIdle ==
  /\ fnArg = <<>>
  /\ fnRet = <<>>

NoCloseWords == [state |-> "none", list |-> <<>>]

\* the variables of the dispatcher, at rest
DispIdle ==
  /\ availableDirs = <<>>
  /\ argv2 = <<>>
  /\ rlOpen = FALSE
  /\ pc = "none"
  /\ typed = <<>>
  /\ idx = 0
  /\ running = {}
  /\ spawned = <<>>
  /\ exits = <<>>
  /\ exitCode = 0
  /\ out = <<>>
  /\ closest = NoCloseWords

Init ==
  /\ \E listing \in SrcListings : availableDirs = ScanSrc(listing)
  /\ argv2 \in {<<>>} \cup {<<s>> : s \in InputStrings}
  /\ rlOpen = TRUE
  /\ pc = "main"
  /\ typed = <<>>
  /\ idx = 0
  /\ running = {}
  /\ spawned = <<>>
  /\ exits = <<>>
  /\ exitCode = 0
  /\ out = <<>>
  /\ closest = NoCloseWords
  /\ TestIdle
  /\ FnIdle

(***************************************************************************)
(* Dispatcher: runOne, runAll, handleSelection.  Each operator gives the   *)
(* effect of one call on pc, idx, running, spawned, exitCode and out; o is *)
(* the console output and r the set of live children at the call.          *)
(***************************************************************************)
Child(dirName, fileName) ==
  [dir |-> dirName, file |-> fileName, cmd |-> getRunCommand(fileName)]

\* process.exit(code) after printing o
Exit(code, o, r) ==
  /\ pc' = "exited"
  /\ exitCode' = ExitStatus(code)
  /\ out' = o
  /\ running' = r
  /\ UNCHANGED <<spawned, idx>>

\* runOne(dirName), the entry directory being read as content
runOne(dirName, content, o, r) ==
  LET found == findMainFile(content)
  IN  IF found.throws
      THEN Exit(1, o \o <<"error">>, r)
      ELSE /\ pc' = "runOneChild"
           /\ running' = r \cup {Child(dirName, found.value)}
           /\ spawned' = Append(spawned, dirName)
           /\ out' = o \o <<"file">>
           /\ UNCHANGED <<exitCode, idx>>

\* runAll(index), the entry directory being read as content
runAll(index, content, o, r) ==
  IF index >= Len(availableDirs)
  THEN /\ pc' = "allDone"
       /\ idx' = index
       /\ out' = o \o <<"all complete">>
       /\ running' = r
       /\ UNCHANGED <<spawned, exitCode>>
  ELSE LET dirName == availableDirs[index + 1]
           found == findMainFile(content)
       IN  IF found.throws
           THEN Exit(1, o \o <<"entry banner", "error">>, r)
           ELSE /\ pc' = "runAllChild"
                /\ idx' = index
                /\ running' = r \cup {Child(dirName, found.value)}
                /\ spawned' = Append(spawned, dirName)
                /\ out' = o \o <<"entry banner", "file">>
                /\ UNCHANGED exitCode

\* handleSelection(dirName) up to its first suspension
handleSelection(dirName, content, o) ==
  /\ typed' = dirName
  /\ IF dirName = <<>>
     THEN runAll(0, content, o \o <<"run all banner">>, running)
     ELSE IF Includes(availableDirs, dirName)
     THEN runOne(dirName, content, o \o <<"run one banner">>, running)
     ELSE /\ pc' = "awaitCloseWords"
          /\ out' = o
          /\ UNCHANGED <<idx, running, spawned, exitCode>>

\* if (argDir): an argument was given and is not the empty string
ArgGiven == argv2 # <<>> /\ argv2[1] # <<>>

\* lines 72-74: an argument was given
MainArg ==
  /\ pc = "main"
  /\ ArgGiven
  /\ \E content \in DirContents : handleSelection(trim(argv2[1]), content, out)
  /\ UNCHANGED <<availableDirs, argv2, rlOpen, exits, closest, testVars, fnVars>>

\* lines 75-90: no argument, list the entries and ask
MainPrompt ==
  /\ pc = "main"
  /\ ~ArgGiven
  /\ pc' = "prompt"
  /\ out' = out \o <<"available list", "prompt">>
  /\ UNCHANGED <<availableDirs, argv2, rlOpen, typed, idx, running, spawned,
                 exits, exitCode, closest, testVars, fnVars>>

\* lines 85-88: the operator answers the question
Answer ==
  /\ pc = "prompt"
  /\ rlOpen
  /\ rlOpen' = FALSE
  /\ \E answer \in InputStrings, content \in DirContents :
        handleSelection(trim(answer), content, out)
  /\ UNCHANGED <<availableDirs, argv2, exits, closest, testVars, fnVars>>

\* stdin ends: readline closes its interface; a pending question is dropped
StdinEnd ==
  /\ rlOpen
  /\ pc # "exited"
  /\ rlOpen' = FALSE
  /\ pc' = IF pc = "prompt" THEN "idle" ELSE pc
  /\ UNCHANGED <<availableDirs, argv2, typed, idx, running, spawned, exits,
                 exitCode, out, closest, testVars, fnVars>>

\* lists closeWords may resolve with: known names, best first
Candidates ==
  {c \in SeqsUpTo({availableDirs[i] : i \in 1..Len(availableDirs)}, MaxCandidates) :
     \A i, j \in 1..Len(c) : i # j => c[i] # c[j]}

\* variant of onCloseWords: the last candidate is taken instead of the first
onCloseWords_Last(list, content) ==
  IF Len(list) > 0
  THEN runOne(list[Len(list)], content, out \o <<"substitution">>, running)
  ELSE Exit(1, out \o <<"not found", "available list">>, running)

\* lines 104-114: what handleSelection does with the list closeWords gave
onCloseWords(list, content) ==
  IF Len(list) > 0
  THEN runOne(list[1], content, out \o <<"substitution">>, running)
  ELSE Exit(1, out \o <<"not found", "available list">>, running)

\* lines 103-114: closeWords resolved
CloseWordsResolve ==
  /\ pc = "awaitCloseWords"
  /\ \E list \in Candidates, content \in DirContents :
        /\ closest' = [state |-> "resolved", list |-> list]
        /\ onCloseWords(list, content)
  /\ UNCHANGED <<availableDirs, argv2, rlOpen, typed, exits, testVars, fnVars>>

\* lines 115-118: closeWords rejected
CloseWordsReject ==
  /\ pc = "awaitCloseWords"
  /\ closest' = [state |-> "rejected", list |-> <<>>]
  /\ Exit(1, out \o <<"error">>, running)
  /\ UNCHANGED <<availableDirs, argv2, rlOpen, typed, exits, testVars, fnVars>>

\* lines 137-139: "exit" of the child of runOne
runOneOnExit(c, code) ==
  Exit(code, out, running \ {c})

RunOneChildExit ==
  /\ pc = "runOneChild"
  /\ \E c \in running, code \in ExitCodes :
        /\ exits' = Append(exits, code)
        /\ runOneOnExit(c, code)
  /\ UNCHANGED <<availableDirs, argv2, rlOpen, typed, closest, testVars, fnVars>>

\* variant of runAllOnExit: every failure is reported as status 1
runAllOnExit_ExitOne(c, code, content) ==
  IF code # 0
  THEN Exit(1, out \o <<"exit error">>, running \ {c})
  ELSE runAll(idx + 1, content, out, running \ {c})

\* variant of runAllOnExit: the test is code > 0, which a null code passes
runAllOnExit_Positive(c, code, content) ==
  IF code > 0
  THEN Exit(code, out \o <<"exit error">>, running \ {c})
  ELSE runAll(idx + 1, content, out, running \ {c})

\* lines 169-177: "exit" of the child of runAll(index)
runAllOnExit(c, code, content) ==
  IF code # 0
  THEN Exit(code, out \o <<"exit error">>, running \ {c})
  ELSE runAll(idx + 1, content, out, running \ {c})

RunAllChildExit ==
  /\ pc = "runAllChild"
  /\ \E c \in running, code \in ExitCodes, content \in DirContents :
        /\ exits' = Append(exits, code)
        /\ runAllOnExit(c, code, content)
  /\ UNCHANGED <<availableDirs, argv2, rlOpen, typed, closest, testVars, fnVars>>

\* nothing is left to wait for: the process ends with status 0
Drain ==
  /\ pc \in {"allDone", "idle"}
  /\ ~rlOpen
  /\ running = {}
  /\ pc' = "exited"
  /\ exitCode' = 0
  /\ UNCHANGED <<availableDirs, argv2, rlOpen, typed, idx, running, spawned,
                 exits, out, closest, testVars, fnVars>>

Next ==
  \/ MainArg
  \/ MainPrompt
  \/ Answer
  \/ StdinEnd
  \/ CloseWordsResolve
  \/ CloseWordsReject
  \/ RunOneChildExit
  \/ RunAllChildExit
  \/ Drain

Spec == Init /\ [][Next]_vars

\* the event loop runs every callback that is ready, and a child that was
\* spawned exits; input on stdin (an answer, its end) is up to the operator
FairSpec ==
  /\ Spec
  /\ WF_vars(MainArg)
  /\ WF_vars(MainPrompt)
  /\ WF_vars(CloseWordsResolve \/ CloseWordsReject)
  /\ WF_vars(RunOneChildExit)
  /\ WF_vars(RunAllChildExit)
  /\ WF_vars(Drain)

(***************************************************************************)
(* The validation suite of one entry (describe(`src/${target}/`)).  The    *)
(* tests run one after the other in the order they are declared, each      *)
(* after beforeEach; a test whose beforeEach throws fails without its body *)
(* being run.                                                              *)
(***************************************************************************)
EXPECTED_COUNT == 1000000
MAX_FILE_SIZE == 1000

TestCount == 6

\* texts the entry's file is read with
SampleTexts ==
  { <<"g", "(", ")", ";">>,
    <<"for", "(", ")", "{", "g", "(", ")", "}">>,
    <<"/", "/", "for", "(", "\n", "g", "(", ")">>,
    <<"function", " ", "f", "(", ")", "{", "f", "(", ")", "}">>,
    <<"g", ".forEach", "(", "f", ")">> }

TestInit ==
  /\ entryDir \in DirContents
  /\ diskText \in SampleTexts
  /\ diskSize \in {MAX_FILE_SIZE, MAX_FILE_SIZE + 1}
  /\ curFileName = <<>>
  /\ curFileContent = <<>>
  /\ testNo = 1
  /\ tpc = "beforeEach"
  /\ results = [n \in 1..TestCount |-> "pending"]
  /\ child = {}
  /\ stdout = 0
  /\ spawns = 0
  /\ DispIdle
  /\ FnIdle

\* the current test ends with outcome r; the next one starts at beforeEach
Finish(r) ==
  /\ results' = [results EXCEPT ![testNo] = r]
  /\ testNo' = testNo + 1
  /\ tpc' = "beforeEach"

Verdict(b) == IF b THEN "passed" ELSE "failed"

\* lines 82-86
BeforeEach ==
  /\ testNo \in 1..TestCount
  /\ tpc = "beforeEach"
  /\ LET found == findMainFile_test(entryDir)
     IN  IF found.throws
         THEN /\ Finish("failed")
              /\ UNCHANGED <<curFileName, curFileContent>>
         ELSE /\ curFileName' = <<found.value>>
              /\ curFileContent' = <<diskText>>
              /\ tpc' = "body"
              /\ UNCHANGED <<results, testNo>>
  /\ UNCHANGED <<entryDir, diskText, diskSize, child, stdout, spawns, dispVars, fnVars>>

\* lines 88-94
TestSingleFile ==
  /\ testNo = 1 /\ tpc = "body"
  /\ Finish(Verdict(Len(SelectSeq(entryDir, LAMBDA f : f.isFile)) = 1))
  /\ UNCHANGED <<entryDir, diskText, diskSize, curFileName, curFileContent,
                 child, stdout, spawns, dispVars, fnVars>>

\* lines 96-98
TestAllowedName ==
  /\ testNo = 2 /\ tpc = "body"
  /\ Finish(Verdict(Includes(ALLOWED_FILENAMES, curFileName[1])))
  /\ UNCHANGED <<entryDir, diskText, diskSize, curFileName, curFileContent,
                 child, stdout, spawns, dispVars, fnVars>>

\* lines 100-103
TestSize ==
  /\ testNo = 3 /\ tpc = "body"
  /\ Finish(Verdict(diskSize <= MAX_FILE_SIZE))
  /\ UNCHANGED <<entryDir, diskText, diskSize, curFileName, curFileContent,
                 child, stdout, spawns, dispVars, fnVars>>

\* lines 105-114
TestKeywords ==
  /\ testNo = 4 /\ tpc = "body"
  /\ Finish(Verdict(keywordTest(curFileContent[1])))
  /\ UNCHANGED <<entryDir, diskText, diskSize, curFileName, curFileContent,
                 child, stdout, spawns, dispVars, fnVars>>

\* lines 116-152
TestRecursion ==
  /\ testNo = 5 /\ tpc = "body"
  /\ Finish(Verdict(recursionTest(curFileContent[1])))
  /\ UNCHANGED <<entryDir, diskText, diskSize, curFileName, curFileContent,
                 child, stdout, spawns, dispVars, fnVars>>

\* lines 155-164: the script is spawned
TestRunStart ==
  /\ testNo = 6 /\ tpc = "body"
  /\ child' = child \cup
       {[file |-> curFileName[1],
         cmd |-> getRunCommand_test(curFileName[1]),
         nodeOptions |-> IF curFileName[1] = "main.ts"
                         THEN <<"--loader", "ts-node/esm">> ELSE <<>>,
         chunks |-> 0]}
  /\ spawns' = spawns + 1
  /\ stdout' = 0
  /\ tpc' = "awaitClose"
  /\ UNCHANGED <<entryDir, diskText, diskSize, curFileName, curFileContent,
                 testNo, results, dispVars, fnVars>>

\* lines 168-170: a chunk of output with n occurrences of the target
ChildData ==
  /\ tpc = "awaitClose"
  /\ \E c \in child, n \in {1, EXPECTED_COUNT - 1, EXPECTED_COUNT} :
        /\ c.chunks < MaxChunks
        /\ child' = (child \ {c}) \cup {[c EXCEPT !.chunks = c.chunks + 1]}
        /\ stdout' = stdout + n
  /\ UNCHANGED <<entryDir, diskText, diskSize, curFileName, curFileContent,
                 testNo, tpc, results, spawns, dispVars, fnVars>>

\* lines 176-189: the child closed; the occurrences are counted
ChildClose ==
  /\ tpc = "awaitClose"
  /\ \E c \in child, code \in ExitCodes :
        /\ child' = child \ {c}
        /\ IF code # 0
           THEN Finish("failed")
           ELSE Finish(Verdict(stdout = EXPECTED_COUNT))
  /\ UNCHANGED <<entryDir, diskText, diskSize, curFileName, curFileContent,
                 stdout, spawns, dispVars, fnVars>>

TestNext ==
  \/ BeforeEach
  \/ TestSingleFile
  \/ TestAllowedName
  \/ TestSize
  \/ TestKeywords
  \/ TestRecursion
  \/ TestRunStart
  \/ ChildData
  \/ ChildClose

SpecTest == TestInit /\ [][TestNext]_vars

(***************************************************************************)
(* Single calls of findMainFile (both copies).                             *)
(***************************************************************************)
DirListings ==
  {l \in SeqsUpTo(DirItems, MaxDirLen) :
     \A i, j \in 1..Len(l) : i # j => l[i].name # l[j].name}

FindInit ==
  /\ fnArg \in DirListings
  /\ fnRet = <<>>
  /\ DispIdle
  /\ TestIdle

Called(fn) == \E i \in 1..Len(fnRet) : fnRet[i].fn = fn

CallFindMainFile ==
  /\ ~Called("findMainFile")
  /\ fnRet' = Append(fnRet, [fn |-> "findMainFile", ret |-> findMainFile(fnArg)])
  /\ UNCHANGED <<fnArg, dispVars, testVars>>

CallFindMainFile_test ==
  /\ ~Called("findMainFile_test")
  /\ fnRet' = Append(fnRet, [fn |-> "findMainFile_test", ret |-> findMainFile_test(fnArg)])
  /\ UNCHANGED <<fnArg, dispVars, testVars>>

FindNext ==
  \/ CallFindMainFile
  \/ CallFindMainFile_test

SpecFind == FindInit /\ [][FindNext]_vars

(***************************************************************************)
(* Single calls of the self-recursion test: the file is one function       *)
(* declaration, followed or not by an arrow-function assignment.           *)
(***************************************************************************)
BodyAlphabet == {"f", "g", "(", ")", "{", "}", " "}

\* braces are balanced: every "}" closes an open "{" and none stays open
RECURSIVE Depth(_, _)
Depth(s, d) ==
  IF d < 0 THEN -1
  ELSE IF s = <<>> THEN d
  ELSE Depth(Tail(s), IF Head(s) = "{" THEN d + 1
                       ELSE IF Head(s) = "}" THEN d - 1 ELSE d)

Balanced(s) == Depth(s, 0) = 0

Bodies == {b \in SeqsUpTo(BodyAlphabet, MaxBodyLen) : Balanced(b)}

Idents == {<<"f">>, <<"g">>}

ArrowDefs == [name : Idents, body : {<<"g", "(", ")">>, <<"f", "(", ")">>}]

Declarations ==
  [name : {<<"f">>}, params : {<<>>, <<"g">>}, body : Bodies,
   tail : {<<>>} \cup {<<a>> : a \in ArrowDefs}]

RenderArrow(a) ==
  <<";", "var", " ">> \o a.name \o <<"=", "(", ")", "=>">> \o a.body \o <<";">>

\* the text of the file
Render(d) ==
  <<"function", " ">> \o d.name \o <<"(">> \o d.params \o <<")", "{">>
    \o d.body \o <<"}">>
    \o (IF d.tail = <<>> THEN <<>> ELSE RenderArrow(d.tail[1]))

RecursionInit ==
  /\ fnArg \in Declarations
  /\ fnRet = <<>>
  /\ DispIdle
  /\ TestIdle

CallRecursionTest ==
  /\ fnRet = <<>>
  /\ fnRet' = <<recursionTest(Render(fnArg))>>
  /\ UNCHANGED <<fnArg, dispVars, testVars>>

SpecRecursion == RecursionInit /\ [][CallRecursionTest]_vars

(***************************************************************************)
(* Single calls of the keyword test.                                       *)
(***************************************************************************)
Keywords == {"for", "while", ".forEach"}

\* pieces a text is put together from: one of the keywords, "(", the line
\* feed, the double quote and the three comment markers
Pieces(kw) == {kw, "(", "\n", "\"", "//", "/*", "*/"}

\* the characters of a piece
Chars(piece) ==
  IF piece = "//" THEN <<"/", "/">>
  ELSE IF piece = "/*" THEN <<"/", "*">>
  ELSE IF piece = "*/" THEN <<"*", "/">>
  ELSE <<piece>>

RECURSIVE Flatten(_)
Flatten(pieces) ==
  IF pieces = <<>> THEN <<>> ELSE Chars(Head(pieces)) \o Flatten(Tail(pieces))

KeywordInit ==
  /\ \E kw \in Keywords :
        \E pieces \in SeqsUpTo(Pieces(kw), MaxTextLen) :
           fnArg = [kw |-> kw, text |-> Flatten(pieces)]
  /\ fnRet = <<>>
  /\ DispIdle
  /\ TestIdle

CallKeywordTest ==
  /\ fnRet = <<>>
  /\ fnRet' = <<keywordTest(fnArg.text)>>
  /\ UNCHANGED <<fnArg, dispVars, testVars>>

SpecKeyword == KeywordInit /\ [][CallKeywordTest]_vars

(***************************************************************************)
(* Properties of the dispatcher.                                           *)
(***************************************************************************)
RunAllMode == Includes(out, "run all banner")
RunOneMode == Includes(out, "substitution") \/ Includes(out, "run one banner")

\* the entry runOne was called for: the top candidate, or the name given
Target == IF closest.state = "resolved" THEN closest.list[1] ELSE typed

Sorted(s) == \A i, j \in 1..Len(s) : i < j => StrLess(s[i], s[j])

\* C1: in run-all mode, when the child of the entry at position i exits with
\* a non-zero code c, the entries started are exactly those at positions
\* 1..i, no child is left, and the dispatcher has exited with status c.
C1_FirstFailureAborts ==
  RunAllMode =>
    \A i \in 1..Len(exits) :
      (exits[i] # 0 /\ exits[i] # Null) =>
        /\ pc = "exited"
        /\ exitCode = exits[i]
        /\ i = Len(exits)
        /\ spawned = SubSeq(availableDirs, 1, i)
        /\ running = {}

\* C1 witness: the second of at least three entries failed with code 2
C1_Witness ==
  /\ RunAllMode
  /\ Len(availableDirs) >= 3
  /\ exits = <<0, 2>>
  /\ pc = "exited"

\* C2: in run-all mode at most one child is outstanding, the entries are
\* started in ascending order of their names, and the child of an entry is
\* spawned only after the child of the entry before it exited with code 0.
C2_StrictlySequential ==
  RunAllMode =>
    /\ Cardinality(running) <= 1
    /\ Sorted(availableDirs)
    /\ Len(spawned) <= Len(availableDirs)
    /\ spawned = SubSeq(availableDirs, 1, Len(spawned))
    /\ Len(exits) = Len(spawned) - Cardinality(running)
    /\ \A k \in 2..Len(spawned) : exits[k - 1] = 0

\* C2 witness: the third entry is running after two successful ones
C2_Witness ==
  /\ RunAllMode
  /\ Len(spawned) = 3
  /\ Cardinality(running) = 1
  /\ exits = <<0, 0>>

\* C4 as stated: after a substitution or an exact match the dispatcher has
\* run exactly the target entry and exits with the code of its child.
C4_Original ==
  (RunOneMode /\ pc = "exited") =>
    /\ spawned = <<Target>>
    /\ Len(exits) = 1
    /\ exitCode = exits[1]

\* C4 amended: after a substitution or an exact match the only entry that is
\* ever run is the target (the top candidate, or the exact name).  If
\* findMainFile fails for it no child is spawned and the dispatcher exits
\* with status 1; otherwise one child is spawned and the dispatcher exits
\* with its exit code, or with 0 when the child was ended by a signal.
C4_Amended ==
  RunOneMode =>
    /\ spawned \in {<<>>, <<Target>>}
    /\ \A c \in running : c.dir = Target
    /\ Len(exits) = Len(spawned) - Cardinality(running)
    /\ pc \in {"runOneChild", "exited"}
    /\ pc = "runOneChild" => Cardinality(running) = 1
    /\ pc = "exited" =>
         /\ running = {}
         /\ \/ spawned = <<>> /\ exitCode = 1 /\ out[Len(out)] = "error"
            \/ Len(exits) = 1 /\ exits[1] # Null /\ exitCode = exits[1]
            \/ Len(exits) = 1 /\ exits[1] = Null /\ exitCode = 0

\* C4 witness: the first of two candidates ran and exited with code 2
C4_Witness ==
  /\ closest.state = "resolved"
  /\ Len(closest.list) = 2
  /\ spawned = <<closest.list[1]>>
  /\ exits = <<2>>
  /\ pc = "exited"
  /\ exitCode = 2

ResolutionFailed ==
  \/ closest.state = "rejected"
  \/ closest.state = "resolved" /\ closest.list = <<>>

\* C5: when closeWords returns no candidate or fails, no child is spawned
\* and the dispatcher exits with a non-zero status after an error message
\* that lists the available entries.
C5_Claim ==
  ResolutionFailed =>
    /\ pc = "exited"
    /\ exitCode # 0
    /\ spawned = <<>>
    /\ out[Len(out)] = "available list"

\* C9: every child of the dispatcher is started with the command line the
\* validation suite uses for the same file, and for main.ts that command
\* line asks for the ECMAScript-module loader.
C9_Claim ==
  \A c \in running :
    /\ c.cmd = getRunCommand_test(c.file)
    /\ c.file = "main.ts" => Includes(c.cmd, "--esm")

\* C10: once run-all has run every entry, each with exit code 0, every entry
\* was run exactly once and the dispatcher eventually exits with status 0.
C10_Claim ==
  [](pc = "allDone" =>
       /\ spawned = availableDirs
       /\ <>(pc = "exited" /\ exitCode = 0))

(***************************************************************************)
(* Properties of the validation suite and of its functions.                *)
(***************************************************************************)
AllowList == {"main.js", "main.cjs", "main.mjs", "main.ts", "main.coffee"}

\* positions of the regular files of a directory
RegularFiles(dir) == {k \in 1..Len(dir) : dir[k].isFile}

\* exactly one regular file, and its name is allowed
StructureOk(dir) ==
  /\ Cardinality(RegularFiles(dir)) = 1
  /\ \A k \in RegularFiles(dir) : dir[k].name \in AllowList

StaticTests == {3, 4, 5}

\* C3 as stated: the script is executed only if every static check passed.
C3_Original ==
  spawns > 0 => \A n \in StaticTests : results[n] = "passed"

\* C3 amended: the tests of an entry run one at a time in the declared order
\* (single file, allowed name, size, keywords, recursion, execution); the
\* script is spawned at most once, only in the execution test, only after
\* every static test has finished (passed or failed) and only if the entry
\* directory holds exactly one regular file with an allowed name; the
\* execution test passes only if the child was spawned and the target was
\* counted EXPECTED_COUNT times.  A failed static test does not prevent the
\* execution.
C3_Amended ==
  /\ testNo \in 1..(TestCount + 1)
  /\ \A n \in 1..TestCount : (results[n] # "pending") <=> (n < testNo)
  /\ spawns <= 1
  /\ Cardinality(child) <= spawns
  /\ spawns > 0 =>
       /\ testNo >= 6
       /\ StructureOk(entryDir)
       /\ \A n \in StaticTests : results[n] \in {"passed", "failed"}
  /\ child # {} => testNo = 6
  /\ results[6] = "passed" => spawns = 1 /\ stdout = EXPECTED_COUNT

\* C3 witness: the keyword test failed and the script is running
C3_Witness ==
  /\ results[4] = "failed"
  /\ results[5] = "passed"
  /\ child # {}
  /\ spawns = 1

\* C6: either copy of findMainFile returns a name exactly when the
\* directory holds one regular file (directories are not counted) whose
\* name is in the allow-list, and then returns that name; otherwise it
\* throws.
C6_FindMainFile ==
  \A i \in 1..Len(fnRet) :
    LET r == fnRet[i].ret
    IN  /\ r.throws \in BOOLEAN
        /\ (~r.throws) <=> StructureOk(fnArg)
        /\ (~r.throws) => \A k \in RegularFiles(fnArg) : r.value = fnArg[k].name

\* C6 witness: both copies returned the name of the one file that stands
\* beside a sub-directory
C6_Witness ==
  /\ Len(fnRet) = 2
  /\ \A i \in 1..2 : fnRet[i].ret = Returned("main.coffee")
  /\ Len(fnArg) = 2
  /\ \E k \in 1..2 : ~fnArg[k].isFile

\* the name is in the text at a word boundary, followed by white space or
\* nothing and then by "("
CallsByName(name, text) ==
  \E p, q \in 1..Len(text) :
    /\ q = p + Len(name) \/ (q > p + Len(name) /\ \A k \in (p + Len(name))..(q - 1) : IsSpace(text[k]))
    /\ text[q] = "("
    /\ \A k \in 1..Len(name) : p + k - 1 < q /\ text[p + k - 1] = name[k]
    /\ p > 1 => ~EndsWithWordChar(text[p - 1])

\* the name is in the text
Mentions(name, text) ==
  \E p \in 1..Len(text) :
    \A k \in 1..Len(name) : p + k - 1 <= Len(text) /\ text[p + k - 1] = name[k]

\* the text up to its first "}"
BeforeFirstClose(text) ==
  IF \E k \in 1..Len(text) : text[k] = "}"
  THEN SubSeq(text, 1, (CHOOSE k \in 1..Len(text) :
                          text[k] = "}" /\ \A j \in 1..(k - 1) : text[j] # "}") - 1)
  ELSE text

\* the arrow function after the declaration has the name of the declaration
Redefined(d) == d.tail # <<>> /\ d.tail[1].name = d.name

RECURSIVE FindAny(_, _, _)
FindAny(s, i, S) ==
  IF i > Len(s) THEN 0
  ELSE IF s[i] \in S THEN i
  ELSE FindAny(s, i + 1, S)

\* The comments of a text as a scanner of the language sees them, from
\* position i on in code: a string runs to its closing quote or to the end
\* of the line, a line comment to the end of the line, a block comment to
\* the next "*" "/".  line = TRUE gives the positions in line comments only.
RECURSIVE CommentFrom(_, _, _)
CommentFrom(s, i, line) ==
  IF i > Len(s) THEN {}
  ELSE IF s[i] = "\""
  THEN LET q == FindAny(s, i + 1, {"\"", "\n"})
       IN  IF q = 0 THEN {} ELSE CommentFrom(s, q + 1, line)
  ELSE IF At(s, i, "/") /\ At(s, i + 1, "/")
  THEN LET nl == FindSym(s, i + 2, "\n")
       IN  IF nl = 0 THEN i..Len(s)
           ELSE (i..(nl - 1)) \cup CommentFrom(s, nl, line)
  ELSE IF At(s, i, "/") /\ At(s, i + 1, "*") /\ FindBlockEnd(s, i + 2) # 0
  THEN (IF line THEN {} ELSE i..(FindBlockEnd(s, i + 2) + 1))
         \cup CommentFrom(s, FindBlockEnd(s, i + 2) + 2, line)
  ELSE CommentFrom(s, i + 1, line)

Comments(s) == CommentFrom(s, 1, FALSE)
LineComments(s) == CommentFrom(s, 1, TRUE)

RECURSIVE Keep(_, _, _)
Keep(s, i, drop) ==
  IF i > Len(s) THEN <<>>
  ELSE (IF i \in drop THEN <<>> ELSE <<s[i]>>) \o Keep(s, i + 1, drop)

\* the text without its comments
RealCode(s) == Keep(s, 1, Comments(s))

\* the banned pattern of keyword kw stands in s: the keyword (for and while
\* at a word boundary), white space or nothing, "("
Occurs(s, kw) ==
  \E i, j \in 1..Len(s) :
    /\ s[i] = kw
    /\ (kw = ".forEach" \/ i = 1 \/ ~EndsWithWordChar(s[i - 1]))
    /\ j > i /\ s[j] = "("
    /\ \A k \in (i + 1)..(j - 1) : IsSpace(s[k])

\* every "/" of the text is in a comment, and no line comment holds a "*"
CommentsOnly(s) ==
  /\ \A k \in 1..Len(s) : s[k] = "/" => k \in Comments(s)
  /\ \A k \in LineComments(s) : s[k] # "*"

\* every string of the text is closed on its line
RECURSIVE StringsClosedFrom(_, _)
StringsClosedFrom(s, i) ==
  IF i > Len(s) THEN TRUE
  ELSE IF s[i] = "\""
  THEN LET q == FindAny(s, i + 1, {"\"", "\n"})
       IN  q # 0 /\ s[q] = "\"" /\ StringsClosedFrom(s, q + 1)
  ELSE IF At(s, i, "/") /\ At(s, i + 1, "/")
  THEN LET nl == FindSym(s, i + 2, "\n")
       IN  nl = 0 \/ StringsClosedFrom(s, nl)
  ELSE IF At(s, i, "/") /\ At(s, i + 1, "*") /\ FindBlockEnd(s, i + 2) # 0
  THEN StringsClosedFrom(s, FindBlockEnd(s, i + 2) + 2)
  ELSE StringsClosedFrom(s, i + 1)

\* C8 as stated: the keyword test fails when a banned pattern stands
\* outside the comments of the file, and passes when the patterns stand in
\* comments only (stated for files whose strings are closed).
C8_Original ==
  (fnRet # <<>> /\ StringsClosedFrom(fnArg.text, 1)) =>
    (fnRet[1] = FALSE <=> Occurs(RealCode(fnArg.text), fnArg.kw))

\* C8 amended: for a file in which every "/" belongs to a comment (none in
\* a string or in code) and no "//" comment holds a "*", the keyword test
\* fails exactly when a banned pattern stands in the text that is left when
\* the comments are deleted.  Outside such files markers are matched as
\* text wherever they stand, so a pattern in code can be missed.
C8_Amended ==
  (fnRet # <<>> /\ CommentsOnly(fnArg.text)) =>
    (fnRet[1] = FALSE <=> Occurs(RealCode(fnArg.text), fnArg.kw))

\* C8 witness: a pattern that stands in a block comment only is accepted
C8_Witness ==
  /\ fnRet = <<TRUE>>
  /\ fnArg.text = <<"/", "*", ".forEach", "(", "*", "/">>

====
